---- MODULE Spec2Model ----
(***************************************************************************)
(* A model of the control logic of the ai-starter repository:              *)
(*   - the terminal coding assistant, AIAgent                              *)
(*     (mini_projects/single-file-agent/agent.py): Spec, LiveSpec;         *)
(*   - the three tool dispatchers (AIAgent._execute_tool and the           *)
(*     call_function of 03_tools.py and 04_retrieval.py): DispatchSpec;    *)
(*   - the single-pass tool scripts (ai_workflows/01-basics/03_tools.py,   *)
(*     04_retrieval.py): ScriptSpec;                                       *)
(*   - the prompt chain with its gate                                      *)
(*     (ai_workflows/02-workflow_patterns/01_prompt_chaining.py):          *)
(*     ChainSpec;                                                          *)
(*   - the router (02_routing.py): RouteSpec;                              *)
(*   - the parallel validation (03_parallelization.py): ParallelSpec;      *)
(*   - the orchestrator, its workers and reviewer (04_orchestrator.py):    *)
(*     OrchSpec;                                                           *)
(*   - sequences of edit_file calls of AIAgent: EditSpec;                  *)
(*   - the research tools (mini_projects/reflective_research_agent/src/    *)
(*     research_tools.py): ResearchSpec;                                   *)
(*   - repeated calls of one structured extraction step                    *)
(*     (01_prompt_chaining.py, 04_orchestrator.py): ExtractSpec.           *)
(* The language-model endpoint is the environment: every gateway call      *)
(* either raises or returns a response drawn from a small menu.            *)
(***************************************************************************)
EXTENDS Integers, Sequences, FiniteSets, TLC

\* ------------------------------------------------------------------ bounds
\* Longest conversation the safety specifications explore.
MaxMsgs == 6
\* Number of chat calls made on the one agent.
MaxRuns == 2
\* Most tool requests carried by one model turn.
MaxCalls == 2
\* Messages and counter values the liveness specification remembers.
LiveWindow == 3
\* Longest plan the orchestrator is given.
MaxSections == 3
\* Number of write_blog calls made on the one BlogOrchestrator.
MaxBlogs == 2
\* Number of edit_file calls made in a row.
MaxEdits == 3
\* Most entries an upstream search service answers with.
MaxEntries == 2
\* Prompts the parallel validation script validates, one after the other.
MaxPrompts == 2
\* Number of calls made of one extraction step.
MaxExtractions == 3
\* Days that pass while the calls are made.
MaxDays == 2

\* ------------------------------------------------------------------ values
\* A Python str or None, as values of one shape: a str is kept as its
\* template (kind) and what fills the template (a, text).
Result(kind, a, text) == [kind |-> kind, a |-> a, text |-> text]
Str(s) == Result("str", s, <<>>)
None == Result("None", "", <<>>)

\* A dict as a set of <<key, value>> pairs.
Has(d, k) == \E p \in d : p[1] = k
Get(d, k) == (CHOOSE p \in d : p[1] = k)[2]

\* The one path the tools are asked about, and a path argument that is not
\* a path at all (JSON null), on which the os / open calls raise TypeError.
Paths == {"a.txt"}
BadPath == "<null>"

\* The JSON-encoded argument strings the model sends. A text is a tuple of
\* characters.
Malformed == [wellformed |-> FALSE, isObject |-> FALSE, pairs |-> {}]
JsonArray == [wellformed |-> TRUE, isObject |-> FALSE, pairs |-> {}]
JsonObject(pairs) == [wellformed |-> TRUE, isObject |-> TRUE, pairs |-> pairs]

ErrorKinds ==
    { "Unknown tool", "Error executing tool", "File not found",
      "Error reading file",
      "[Error] Directory does not exist or is not a directory",
      "Error listing files", "Text not found in", "Error editing file" }

\* json.dumps of a tool result: None becomes null, a dict an object, and a
\* str is quoted.
JsonDumps(r) ==
    IF r = None THEN Str("null")
    ELSE IF r.kind = "dict" THEN [r EXCEPT !.kind = "{}"]
    ELSE [r EXCEPT !.kind = "\"" \o @]

\* ------------------------------------------------------------------ state
VARIABLES
    messages,   \* AIAgent.messages, the conversation
    state,      \* where the agent loop stands
    pending,    \* response.tool_calls of the turn being resolved
    idx,        \* position of the for loop in pending
    files,      \* the file system the tools act on
    returns,    \* what each finished chat call returned, in order
    runs,       \* chat calls started
    gwCalls,    \* gateway calls made
    lastGw,     \* outcome of the latest gateway call
    toolExecs,  \* _execute_tool calls made
    cycles      \* tool-resolution cycles entered in the current run

agentVars ==
    << messages, state, pending, idx, files, returns, runs, gwCalls, lastGw,
       toolExecs, cycles >>

\* One call of a tool dispatcher.
VARIABLES
    dWho,       \* the dispatcher called
    dName,      \* the tool name it is given
    dArgs,      \* the decoded argument payload it is given
    dFiles,     \* the file system at the call
    dPc,        \* "ready" before the call, "called" after
    dOut        \* what the call did: the value returned or the exception raised

dispatchVars == << dWho, dName, dArgs, dFiles, dPc, dOut >>

\* One run of a single-pass tool script.
VARIABLES
    sScript,    \* which script runs
    sMessages,  \* its messages list
    sPc,        \* where the script stands
    sResponse,  \* the first model response
    sIdx,       \* position of the for loop in the response's tool_calls
    sToolRuns   \* call_function calls made

scriptVars == << sScript, sMessages, sPc, sResponse, sIdx, sToolRuns >>

\* One call of process_calendar_request of 01_prompt_chaining.py.
VARIABLES
    cInput,      \* user_input
    cPc,         \* where the chain stands
    cExtraction, \* initial_extraction
    cCalls,      \* the LLM steps invoked so far, in order
    cResult      \* the value returned

chainVars == << cInput, cPc, cExtraction, cCalls, cResult >>

\* One call of process_calendar_request of 02_routing.py.
VARIABLES
    rInput,     \* user_input
    rPc,        \* where the router stands
    rRoute,     \* route_result
    rCalls,     \* the steps invoked so far, in order
    rResult     \* the value returned

routeVars == << rInput, rPc, rRoute, rCalls, rResult >>

\* The calls of validate_request of 03_parallelization.py, one per prompt.
VARIABLES
    pCalendar,  \* the task of validate_calendar_request
    pSecurity,  \* the task of check_security
    pPc,        \* where validate_request stands
    pResult,    \* is_valid, once returned
    pOrder,     \* the branches in the order they finished
    pPrev,      \* the validation of the prompt before: results, order, verdict
    pPrompts    \* prompts validated so far, this one included

parallelVars == << pCalendar, pSecurity, pPc, pResult, pOrder, pPrev, pPrompts >>

\* One BlogOrchestrator and its write_blog calls.
VARIABLES
    oContent,   \* self.sections_content, in insertion order
    oPc,        \* where write_blog stands
    oPlan,      \* plan.sections: the section types, in order
    oK,         \* sub-tasks of the plan completed in this run
    oContexts,  \* what each worker of this run was given as previous sections
    oReview,    \* what the reviewer of this run was given as sections
    oPost,      \* the sections of the BlogPost returned
    oRuns       \* write_blog calls started

orchVars == << oContent, oPc, oPlan, oK, oContexts, oReview, oPost, oRuns >>

\* A sequence of edit_file calls on one file system.
VARIABLES
    eFiles,     \* the file system
    eLast,      \* the latest call: its arguments, the file before, the result
    eCount      \* calls made

editVars == << eFiles, eLast, eCount >>

\* One call of a research tool.
VARIABLES
    tTool,      \* the tool called
    tEnv,       \* what its configuration and upstream service do
    tPc,        \* "ready" before the call, "called" after
    tOut        \* what the call did: the list returned or the exception raised

researchVars == << tTool, tEnv, tPc, tOut >>

\* Calls of one structured extraction step.
VARIABLES
    xStep,      \* the step called
    xInput,     \* the input every call is given
    xResponse,  \* the response the gateway returns to every call
    xSections,  \* self.sections_content, which write_section reads
    xToday,     \* the day datetime.now() falls on
    xCalls      \* the calls made: request sent, outcome, sections left behind

extractVars == << xStep, xInput, xResponse, xSections, xToday, xCalls >>

workflowVars ==
    << routeVars, parallelVars, orchVars, editVars, researchVars, extractVars >>

vars == << agentVars, dispatchVars, scriptVars, chainVars, workflowVars >>

\* Each specification runs one component; the others stand still.
AgentIdle ==
    /\ messages = <<>> /\ state = "IDLE" /\ pending = <<>> /\ idx = 0
    /\ files = <<>> /\ returns = <<>> /\ runs = 0 /\ gwCalls = 0
    /\ lastGw = "none" /\ toolExecs = 0 /\ cycles = 0
DispatchIdle ==
    /\ dWho = "none" /\ dName = "none" /\ dArgs = <<>> /\ dFiles = <<>>
    /\ dPc = "idle" /\ dOut = <<>>
ScriptIdle ==
    /\ sScript = "none" /\ sMessages = <<>> /\ sPc = "idle" /\ sResponse = <<>>
    /\ sIdx = 0 /\ sToolRuns = 0
ChainIdle ==
    /\ cInput = "none" /\ cPc = "idle" /\ cExtraction = <<>> /\ cCalls = <<>>
    /\ cResult = <<>>
RouteIdle ==
    /\ rInput = "" /\ rPc = "idle" /\ rRoute = <<>> /\ rCalls = <<>>
    /\ rResult = <<>>
ParallelIdle ==
    /\ pCalendar = <<>> /\ pSecurity = <<>> /\ pPc = "idle" /\ pResult = FALSE
    /\ pOrder = <<>> /\ pPrev = <<>> /\ pPrompts = 0
OrchIdle ==
    /\ oContent = <<>> /\ oPc = "none" /\ oPlan = <<>> /\ oK = 0
    /\ oContexts = <<>> /\ oReview = <<>> /\ oPost = <<>> /\ oRuns = 0
EditIdle ==
    /\ eFiles = <<>> /\ eLast = <<>> /\ eCount = 0
ResearchIdle ==
    /\ tTool = "none" /\ tEnv = <<>> /\ tPc = "idle" /\ tOut = <<>>
ExtractIdle ==
    /\ xStep = "none" /\ xInput = "" /\ xResponse = <<>> /\ xSections = <<>>
    /\ xToday = 0 /\ xCalls = <<>>
WorkflowsIdle ==
    RouteIdle /\ ParallelIdle /\ OrchIdle /\ EditIdle /\ ResearchIdle /\ ExtractIdle
\* The components of the first four specifications, standing still.
CoreIdle == AgentIdle /\ DispatchIdle /\ ScriptIdle /\ ChainIdle
coreVars == << agentVars, dispatchVars, scriptVars, chainVars >>

\* ------------------------------------------------------------------ tools
File(exists, content) == [exists |-> exists, content |-> content]
NoFile == File(FALSE, <<>>)

\* old_text in content, for a non-empty old_text.
Contains(content, old) ==
    \E i \in 1..(Len(content) - Len(old) + 1) :
        SubSeq(content, i, i + Len(old) - 1) = old

\* str.replace(old, new): every non-overlapping occurrence, left to right.
RECURSIVE Replace(_, _, _)
Replace(content, old, new) ==
    IF Len(content) < Len(old) \/ Len(old) = 0 THEN content
    ELSE IF SubSeq(content, 1, Len(old)) = old
         THEN new \o Replace(SubSeq(content, Len(old) + 1, Len(content)), old, new)
         ELSE <<Head(content)>> \o Replace(Tail(content), old, new)

\* A tool's outcome: the string it returns and the file system it leaves.
Outcome(result, fs) == [result |-> result, files |-> fs]

\* io = FALSE: the operating system refuses the open / listdir call.
read_file(path, fs, io) ==
    IF path = BadPath \/ ~io
    THEN Outcome(Result("Error reading file", path, <<>>), fs)
    ELSE IF ~fs[path].exists
    THEN Outcome(Result("File not found", path, <<>>), fs)
    ELSE Outcome(Result("File content of", path, fs[path].content), fs)

\* "." is the one directory; it holds the files of Paths that exist.
list_files(path, fs, io) ==
    IF path = BadPath
    THEN Outcome(Result("Error listing files", path, <<>>), fs)
    ELSE IF path # "."
    THEN Outcome(Result("[Error] Directory does not exist or is not a directory",
                        path, <<>>), fs)
    ELSE IF ~io
    THEN Outcome(Result("Error listing files", path, <<>>), fs)
    ELSE IF \A p \in Paths : ~fs[p].exists
    THEN Outcome(Result("Empty directory", path, <<>>), fs)
    ELSE Outcome(Result("Content of", path, <<"[FILE] a.txt">>), fs)

\* edit_file writing new_text over the file where old_text is not found.
edit_file_overwrites(path, old_text, new_text, fs, io) ==
    IF path = BadPath \/ ~io
    THEN Outcome(Result("Error editing file", path, <<>>), fs)
    ELSE IF fs[path].exists /\ old_text # <<>> /\ Contains(fs[path].content, old_text)
    THEN Outcome(Result("Text updated successfully", path, <<>>),
                 [fs EXCEPT ![path] =
                     File(TRUE, Replace(fs[path].content, old_text, new_text))])
    ELSE Outcome(Result("Successfully created", path, <<>>),
                 [fs EXCEPT ![path] = File(TRUE, new_text)])

edit_file(path, old_text, new_text, fs, io) ==
    IF path = BadPath \/ ~io
    THEN Outcome(Result("Error editing file", path, <<>>), fs)
    ELSE IF fs[path].exists /\ old_text # <<>>
    THEN IF ~Contains(fs[path].content, old_text)
         THEN Outcome(Result("Text not found in", path, old_text), fs)
         ELSE Outcome(Result("Text updated successfully", path, <<>>),
                      [fs EXCEPT ![path] =
                          File(TRUE, Replace(fs[path].content, old_text, new_text))])
    ELSE Outcome(Result("Successfully created", path, <<>>),
                 [fs EXCEPT ![path] = File(TRUE, new_text)])

\* tool_input[key] raises TypeError on a list and KeyError on a missing key;
\* tool_input.get raises AttributeError on a list.
Subscriptable(tool_input, key) == tool_input.isObject /\ Has(tool_input.pairs, key)

execute_tool(tool_name, tool_input, fs, io) ==
    IF tool_name = "read_file"
    THEN IF ~Subscriptable(tool_input, "path")
         THEN Outcome(Result("Error executing tool", "path", <<>>), fs)
         ELSE read_file(Get(tool_input.pairs, "path"), fs, io)
    ELSE IF tool_name = "list_files"
    THEN IF ~tool_input.isObject
         THEN Outcome(Result("Error executing tool", "get", <<>>), fs)
         ELSE list_files(IF Has(tool_input.pairs, "path")
                         THEN Get(tool_input.pairs, "path") ELSE ".", fs, io)
    ELSE IF tool_name = "edit_file"
    THEN IF ~Subscriptable(tool_input, "path")
         THEN Outcome(Result("Error executing tool", "path", <<>>), fs)
         ELSE IF ~Subscriptable(tool_input, "new_text")
         THEN Outcome(Result("Error executing tool", "new_text", <<>>), fs)
         ELSE edit_file(Get(tool_input.pairs, "path"),
                        IF Has(tool_input.pairs, "old_text")
                        THEN Get(tool_input.pairs, "old_text") ELSE <<>>,
                        Get(tool_input.pairs, "new_text"), fs, io)
    ELSE Outcome(Result("Unknown tool", tool_name, <<>>), fs)

\* ------------------------------------------------------------------ agent
Message(role, content, tool_calls, tool_call_id) ==
    [role |-> role, content |-> content, tool_calls |-> tool_calls,
     tool_call_id |-> tool_call_id]
NoId == <<>>

SystemMessage == Message("system", Str("You are a helpful coding assistant"), <<>>, NoId)

UserInputs == {"task"}

\* What the gateway can answer: final texts, transport errors, tool requests.
FinalContents == {Str("done"), Str("[Error]: Connection error.")}
TransportErrors == {"Connection error."}
JsonDecodeError == "Expecting value: line 1 column 1 (char 0)"

ToolCallMenu ==
    { [name |-> "read_file", arguments |-> JsonObject({<<"path", "a.txt">>})],
      [name |-> "read_file", arguments |-> JsonObject({})],
      [name |-> "edit_file",
       arguments |-> JsonObject({<<"path", "a.txt">>, <<"new_text", <<"a">>>>})],
      [name |-> "search_web", arguments |-> JsonObject({})],
      [name |-> "read_file", arguments |-> Malformed] }

\* The tool_calls of one response: the requests reqs, their ids unique.
ToolCall(id, req) == [id |-> id, name |-> req.name, arguments |-> req.arguments]
ToolCalls(turn, reqs) == [i \in DOMAIN reqs |-> ToolCall(<<turn, i>>, reqs[i])]

\* return f"[Error]: {str(e)}"
ErrorReturn(e) == Str("[Error]: " \o e)
Returned(outcome, value) == [outcome |-> outcome, value |-> value]

\* The safety specifications stop at MaxMsgs messages. The liveness
\* specification (live = TRUE) runs on: it keeps the first LiveWindow
\* messages of the conversation and lets the counters saturate, which leaves
\* the loop's control state (state, pending, idx) exact.
Room(live) == live \/ Len(messages) < MaxMsgs
\* Push writing over the last message once the conversation has begun.
PushOverLast(msgs, m, live) ==
    IF Len(msgs) >= 3 THEN [msgs EXCEPT ![Len(msgs)] = m] ELSE Append(msgs, m)
Push(msgs, m, live) == IF live /\ Len(msgs) >= LiveWindow THEN msgs ELSE Append(msgs, m)
Count(n, live) == IF live /\ n >= LiveWindow THEN n ELSE n + 1

\* A step of the agent leaves the other components alone.
AgentOnly == UNCHANGED << dispatchVars, scriptVars, chainVars, workflowVars >>

AgentInit ==
    /\ messages = <<SystemMessage>>
    /\ state = "IDLE"
    /\ pending = <<>>
    /\ idx = 0
    /\ files = [p \in Paths |-> NoFile]
    /\ returns = <<>>
    /\ runs = 0
    /\ gwCalls = 0
    /\ lastGw = "none"
    /\ toolExecs = 0
    /\ cycles = 0

\* chat(): the user message is appended and the loop entered.
Chat(user_input, live) ==
    /\ state \in {"IDLE", "DONE", "FAILED"}
    /\ runs < MaxRuns
    /\ Room(live)
    /\ messages' = Push(messages, Message("user", Str(user_input), <<>>, NoId), live)
    /\ state' = "AWAITING_MODEL"
    /\ runs' = runs + 1
    /\ cycles' = 0
    /\ UNCHANGED << pending, idx, files, returns, gwCalls, lastGw, toolExecs >>
    /\ AgentOnly

\* GatewayRaises with the call retried instead of the run ended.
GatewayRaisesRetry(e, live) ==
    /\ state = "AWAITING_MODEL"
    /\ gwCalls' = Count(gwCalls, live)
    /\ lastGw' = "failure"
    /\ UNCHANGED << messages, state, pending, idx, files, returns, runs,
                    toolExecs, cycles >>
    /\ AgentOnly

\* client.chat.completions.create raises; the except clause returns.
GatewayRaises(e, live) ==
    /\ state = "AWAITING_MODEL"
    /\ gwCalls' = Count(gwCalls, live)
    /\ lastGw' = "failure"
    /\ state' = "FAILED"
    /\ returns' = Append(returns, Returned("FAILED", ErrorReturn(e)))
    /\ UNCHANGED << messages, pending, idx, files, runs, toolExecs, cycles >>
    /\ AgentOnly

\* The response carries no tool_calls: it is appended and its content returned.
GatewayFinal(content, live) ==
    /\ state = "AWAITING_MODEL"
    /\ Room(live)
    /\ gwCalls' = Count(gwCalls, live)
    /\ lastGw' = "final"
    /\ messages' = Push(messages, Message("assistant", content, <<>>, NoId), live)
    /\ state' = "DONE"
    /\ returns' = Append(returns, Returned("DONE", content))
    /\ UNCHANGED << pending, idx, files, runs, toolExecs, cycles >>
    /\ AgentOnly

\* The response carries tool_calls: it is appended and the for loop entered.
GatewayToolRequests(calls, live) ==
    /\ state = "AWAITING_MODEL"
    /\ Room(live)
    /\ gwCalls' = Count(gwCalls, live)
    /\ lastGw' = "tools"
    /\ messages' = Push(messages, Message("assistant", None, calls, NoId), live)
    /\ state' = "EXECUTING_TOOLS"
    /\ pending' = calls
    /\ idx' = 1
    /\ cycles' = Count(cycles, live)
    /\ UNCHANGED << files, returns, runs, toolExecs >>
    /\ AgentOnly

\* One iteration of the for loop whose json.loads succeeds.
ExecuteToolCall(io, live) ==
    /\ state = "EXECUTING_TOOLS"
    /\ Room(live)
    /\ pending[idx].arguments.wellformed
    /\ LET tool_call == pending[idx]
           out == execute_tool(tool_call.name, tool_call.arguments, files, io)
       IN /\ messages' = Push(messages,
                              Message("tool", JsonDumps(out.result), <<>>, tool_call.id),
                              live)
          /\ files' = out.files
    /\ toolExecs' = Count(toolExecs, live)
    /\ IF idx < Len(pending)
       THEN /\ idx' = idx + 1
            /\ UNCHANGED << state, pending >>
       ELSE /\ idx' = 0
            /\ pending' = <<>>
            /\ state' = "AWAITING_MODEL"
    /\ UNCHANGED << returns, runs, gwCalls, lastGw, cycles >>
    /\ AgentOnly

\* One iteration of the for loop whose json.loads raises: the except clause
\* of chat returns.
DecodeRaises(live) ==
    /\ state = "EXECUTING_TOOLS"
    /\ ~pending[idx].arguments.wellformed
    /\ state' = "FAILED"
    /\ idx' = 0
    /\ pending' = <<>>
    /\ returns' = Append(returns, Returned("FAILED", ErrorReturn(JsonDecodeError)))
    /\ UNCHANGED << messages, files, runs, gwCalls, lastGw, toolExecs, cycles >>
    /\ AgentOnly

GatewayStep(live) ==
    \/ \E e \in TransportErrors : GatewayRaises(e, live)
    \/ \E content \in FinalContents : GatewayFinal(content, live)
    \/ /\ state = "AWAITING_MODEL"
       /\ \E k \in 1..MaxCalls : \E reqs \in [1..k -> ToolCallMenu] :
             GatewayToolRequests(ToolCalls(gwCalls + 1, reqs), live)

ToolStep(live) ==
    \/ \E io \in BOOLEAN : ExecuteToolCall(io, live)
    \/ DecodeRaises(live)

Init == AgentInit /\ DispatchIdle /\ ScriptIdle /\ ChainIdle /\ WorkflowsIdle

Next ==
    \/ \E user_input \in UserInputs : Chat(user_input, FALSE)
    \/ GatewayStep(FALSE)
    \/ ToolStep(FALSE)

Spec == Init /\ [][Next]_vars

LiveNext ==
    \/ \E user_input \in UserInputs : Chat(user_input, TRUE)
    \/ GatewayStep(TRUE)
    \/ ToolStep(TRUE)

\* Every gateway call and every tool call returns.
LiveSpec ==
    Init /\ [][LiveNext]_vars
    /\ WF_vars(GatewayStep(TRUE)) /\ WF_vars(ToolStep(TRUE))

\* ------------------------------------------------------------------ agent: claims
\* The index of the first assistant message after position i, or past the end.
NextAssistant(msgs, i) ==
    IF \E k \in (i + 1)..Len(msgs) : msgs[k].role = "assistant"
    THEN CHOOSE k \in (i + 1)..Len(msgs) :
            /\ msgs[k].role = "assistant"
            /\ \A l \in (i + 1)..(k - 1) : msgs[l].role # "assistant"
    ELSE Len(msgs) + 1

\* The tool messages that answer request id of the assistant message at i.
AnswersTo(msgs, i, id) ==
    { k \in (i + 1)..(NextAssistant(msgs, i) - 1) :
        msgs[k].role = "tool" /\ msgs[k].tool_call_id = id }

\* <<i, j>>: the j-th tool request of the assistant message at i.
Requests(msgs) ==
    { r \in (1..Len(msgs)) \X (1..(MaxCalls + 1)) :
        msgs[r[1]].role = "assistant" /\ r[2] <= Len(msgs[r[1]].tool_calls) }

RequestId(msgs, r) == msgs[r[1]].tool_calls[r[2]].id

Unanswered(msgs) ==
    { r \in Requests(msgs) : AnswersTo(msgs, r[1], RequestId(msgs, r)) = {} }

\* C1: a completion request is never submitted while the conversation holds
\* a tool request without a tool message. In AWAITING_MODEL the loop's next
\* step is the submission of messages as they stand.
C1_NoSubmitWhileUnanswered ==
    state = "AWAITING_MODEL" => Unanswered(messages) = {}

\* C2: when a run has ended in DONE, every tool request of the conversation
\* has exactly one tool message with its id between the requesting assistant
\* message and the next assistant message.
C2_DoneMeansAllAnsweredOnce ==
    state = "DONE" =>
        \A r \in Requests(messages) :
            Cardinality(AnswersTo(messages, r[1], RequestId(messages, r))) = 1

\* C3: whatever limit on tool-resolution cycles the caller configures (0
\* included), a run that has entered more cycles than the limit has FAILED.
CycleLimits == {0, 1}
C3_CycleLimitEnforced ==
    \A limit \in CycleLimits : cycles > limit => state = "FAILED"

\* C4: every run reaches DONE or FAILED, given that every gateway call and
\* every tool call returns.
C4_RunTerminates ==
    (state = "AWAITING_MODEL") ~> (state \in {"DONE", "FAILED"})

\* C6: a run never ends on a tool-level failure; it fails only when a gateway
\* call has failed.
C6_ToolFailuresAbsorbed ==
    state = "FAILED" => lastGw = "failure"

\* C7: a failed gateway call ends the run at once, FAILED, with an explicit
\* error returned and neither the conversation nor any tool touched; and a
\* FAILED run makes no further gateway call and runs no tool.
C7_GatewayFailureEndsRun ==
    [][ /\ (gwCalls' # gwCalls /\ lastGw' = "failure") =>
              /\ state' = "FAILED"
              /\ messages' = messages
              /\ toolExecs' = toolExecs /\ files' = files
              /\ Len(returns') = Len(returns) + 1
              /\ \E e \in TransportErrors :
                    returns'[Len(returns')] = Returned("FAILED", ErrorReturn(e))
        /\ (state = "FAILED" /\ lastGw = "failure") =>
              (gwCalls' = gwCalls /\ toolExecs' = toolExecs)
      ]_vars

\* A gateway call failed after tools had run in the same run.
C7_Witness ==
    state = "FAILED" /\ lastGw = "failure" /\ cycles > 0 /\ toolExecs > 0

\* C8: no value returned by a failed run is also returned by a run that
\* ended in DONE.
C8_FailureDistinctFromAnswer ==
    \A i, j \in 1..Len(returns) :
        (returns[i].outcome = "FAILED" /\ returns[j].outcome = "DONE")
            => returns[i].value # returns[j].value

\* ------------------------------------------------------------------ dispatchers
Keys(tool_input) == { p[1] : p \in tool_input.pairs }

\* What a call does: it returns a value or raises.
Returns(value) == [raised |-> FALSE, value |-> value]
Raises(exception) == [raised |-> TRUE, value |-> Str(exception)]

\* f(**args): args must be a mapping whose keys are exactly f's parameters.
Binds(args, parameters) == args.isObject /\ Keys(args) = parameters

\* 03_tools.py. ok = FALSE: the weather request fails.
call_function_tools(name, args, ok) ==
    IF name = "get_weather"
    THEN IF ~Binds(args, {"lat", "lon"}) THEN Raises("TypeError")
         ELSE IF ~ok THEN Raises("ConnectionError")
         ELSE Returns(Result("dict", "current", <<>>))
    ELSE Returns(None)

\* 04_retrieval.py. ok = FALSE: data/kb.json cannot be opened.
call_function_retrieval(func_name, args, ok) ==
    IF func_name = "search_kb"
    THEN IF ~Binds(args, {"question"}) THEN Raises("TypeError")
         ELSE IF ~ok THEN Raises("FileNotFoundError")
         ELSE Returns(Result("dict", "kb", <<>>))
    ELSE Returns(None)

Dispatchers == {"agent", "03_tools", "04_retrieval"}

\* The tools each dispatcher knows.
Registered(who) ==
    IF who = "agent" THEN {"read_file", "list_files", "edit_file"}
    ELSE IF who = "03_tools" THEN {"get_weather"}
    ELSE {"search_kb"}

DispatchNames ==
    {"read_file", "list_files", "edit_file", "get_weather", "search_kb", "delete_file"}

DispatchArgs ==
    { JsonArray,
      JsonObject({}),
      JsonObject({<<"path", "a.txt">>}),
      JsonObject({<<"path", BadPath>>}),
      JsonObject({<<"new_text", <<"b">>>>}),
      JsonObject({<<"path", "a.txt">>, <<"new_text", <<"b">>>>}),
      JsonObject({<<"path", "a.txt">>, <<"old_text", <<"a">>>>, <<"new_text", <<"b">>>>}),
      JsonObject({<<"lat", "37.77">>, <<"lon", "-122.41">>}),
      JsonObject({<<"question", "What is the return policy?">>}) }

DispatchFiles ==
    { [p \in Paths |-> NoFile], [p \in Paths |-> File(TRUE, <<"a", "b", "a">>)] }

DispatchInit ==
    /\ dWho \in Dispatchers
    /\ dName \in DispatchNames
    /\ dArgs \in DispatchArgs
    /\ dFiles \in DispatchFiles
    /\ dPc = "ready"
    /\ dOut = Returns(None)

DispatchOnly == UNCHANGED << agentVars, scriptVars, chainVars, workflowVars >>

\* AIAgent._execute_tool(dName, dArgs)
DispatchAgent(ok) ==
    /\ dPc = "ready" /\ dWho = "agent"
    /\ LET out == execute_tool(dName, dArgs, dFiles, ok)
       IN /\ dOut' = Returns(out.result)
          /\ dFiles' = out.files
    /\ dPc' = "called"
    /\ UNCHANGED << dWho, dName, dArgs >>
    /\ DispatchOnly

\* call_function(dName, dArgs) of 03_tools.py
DispatchTools(ok) ==
    /\ dPc = "ready" /\ dWho = "03_tools"
    /\ dOut' = call_function_tools(dName, dArgs, ok)
    /\ dPc' = "called"
    /\ UNCHANGED << dWho, dName, dArgs, dFiles >>
    /\ DispatchOnly

\* call_function(dName, dArgs) of 04_retrieval.py
DispatchRetrieval(ok) ==
    /\ dPc = "ready" /\ dWho = "04_retrieval"
    /\ dOut' = call_function_retrieval(dName, dArgs, ok)
    /\ dPc' = "called"
    /\ UNCHANGED << dWho, dName, dArgs, dFiles >>
    /\ DispatchOnly

DispatchNext ==
    \/ \E ok \in BOOLEAN : DispatchAgent(ok)
    \/ \E ok \in BOOLEAN : DispatchTools(ok)
    \/ \E ok \in BOOLEAN : DispatchRetrieval(ok)

DispatchStart == AgentIdle /\ DispatchInit /\ ScriptIdle /\ ChainIdle /\ WorkflowsIdle

DispatchSpec == DispatchStart /\ [][DispatchNext]_vars

\* C5: a dispatcher called with a tool name it does not know raises nothing
\* and returns a result that carries an error description, whatever the
\* argument payload.
C5_UnknownToolIsErrorResult ==
    (dPc = "called" /\ dName \notin Registered(dWho)) =>
        (~dOut.raised /\ dOut.value.kind \in ErrorKinds)

\* ------------------------------------------------------------------ tool scripts
Scripts == {"03_tools", "04_retrieval"}

ScriptToolCallMenu ==
    { [name |-> "get_weather",
       arguments |-> JsonObject({<<"lat", "37.77">>, <<"lon", "-122.41">>})],
      [name |-> "search_kb",
       arguments |-> JsonObject({<<"question", "What is the return policy?">>})],
      [name |-> "get_weather", arguments |-> JsonObject({})],
      [name |-> "get_time", arguments |-> JsonObject({})],
      [name |-> "get_weather", arguments |-> Malformed] }

ScriptToolCalls ==
    UNION { { ToolCalls(1, reqs) : reqs \in [1..k -> ScriptToolCallMenu] } :
            k \in 1..MaxCalls }

\* The first response: a text with tool_calls None (kept as <<>>), or tool
\* requests.
ScriptResponses ==
    { Message("assistant", Str("I can't help with that."), <<>>, NoId) }
    \cup { Message("assistant", None, calls, NoId) : calls \in ScriptToolCalls }

call_function(script, name, args, ok) ==
    IF script = "03_tools" THEN call_function_tools(name, args, ok)
    ELSE call_function_retrieval(name, args, ok)

ScriptInit ==
    /\ sScript \in Scripts
    /\ sMessages = << Message("system", Str("You are a helpful assistant"), <<>>, NoId),
                      Message("user", Str("question"), <<>>, NoId) >>
    /\ sPc = "first_call"
    /\ sResponse = Message("assistant", None, <<>>, NoId)
    /\ sIdx = 0
    /\ sToolRuns = 0

ScriptOnly == UNCHANGED << agentVars, dispatchVars, chainVars, workflowVars >>

\* client.chat.completions.create raises: the script ends with the exception.
FirstCallRaises ==
    /\ sPc = "first_call"
    /\ sPc' = "crashed"
    /\ UNCHANGED << sScript, sMessages, sResponse, sIdx, sToolRuns >>
    /\ ScriptOnly

FirstCallReturns(response) ==
    /\ sPc = "first_call"
    /\ sResponse' = response
    /\ sPc' = "tool_loop"
    /\ sIdx' = 1
    /\ UNCHANGED << sScript, sMessages, sToolRuns >>
    /\ ScriptOnly

\* for tool_call in None: TypeError.
IterateNone ==
    /\ sPc = "tool_loop"
    /\ sResponse.tool_calls = <<>>
    /\ sPc' = "crashed"
    /\ UNCHANGED << sScript, sMessages, sResponse, sIdx, sToolRuns >>
    /\ ScriptOnly

\* One iteration of the for loop: json.loads, call_function, then the
\* response and the tool message are appended.
ToolLoopIteration(ok) ==
    /\ sPc = "tool_loop"
    /\ sResponse.tool_calls # <<>>
    /\ LET tool_call == sResponse.tool_calls[sIdx]
           result == call_function(sScript, tool_call.name, tool_call.arguments, ok)
       IN IF ~tool_call.arguments.wellformed
          THEN /\ sPc' = "crashed"
               /\ UNCHANGED << sMessages, sIdx, sToolRuns >>
          ELSE IF result.raised
          THEN /\ sPc' = "crashed"
               /\ sToolRuns' = sToolRuns + 1
               /\ UNCHANGED << sMessages, sIdx >>
          ELSE /\ sMessages' = sMessages \o
                     << sResponse,
                        Message("tool", JsonDumps(result.value), <<>>, tool_call.id) >>
               /\ sToolRuns' = sToolRuns + 1
               /\ IF sIdx < Len(sResponse.tool_calls)
                  THEN sIdx' = sIdx + 1 /\ sPc' = sPc
                  ELSE sIdx' = 0 /\ sPc' = "second_call"
    /\ UNCHANGED << sScript, sResponse >>
    /\ ScriptOnly

\* The second, structured-output call.
SecondCall(ok) ==
    /\ sPc = "second_call"
    /\ sPc' = IF ok THEN "done" ELSE "crashed"
    /\ UNCHANGED << sScript, sMessages, sResponse, sIdx, sToolRuns >>
    /\ ScriptOnly

ScriptNext ==
    \/ FirstCallRaises
    \/ \E response \in ScriptResponses : FirstCallReturns(response)
    \/ IterateNone
    \/ \E ok \in BOOLEAN : ToolLoopIteration(ok)
    \/ \E ok \in BOOLEAN : SecondCall(ok)

ScriptStart == AgentIdle /\ DispatchIdle /\ ScriptInit /\ ChainIdle /\ WorkflowsIdle

ScriptSpec == ScriptStart /\ [][ScriptNext]_vars

\* C9: when the model turn carried k >= 1 tool requests, then at the next
\* model request the conversation has gained exactly one assistant message,
\* the one carrying the requests, followed by exactly k tool messages in the
\* order of the requests.
C9_OneAssistantThenToolMessages ==
    (sPc = "second_call" /\ Len(sResponse.tool_calls) >= 1) =>
        LET k == Len(sResponse.tool_calls)
        IN /\ Len(sMessages) = 2 + 1 + k
           /\ sMessages[3] = sResponse
           /\ \A j \in 1..k :
                 /\ sMessages[3 + j].role = "tool"
                 /\ sMessages[3 + j].tool_call_id = sResponse.tool_calls[j].id

\* ------------------------------------------------------------------ prompt chain
\* confidence_score in hundredths; the gate's 0.7.
GateThreshold == 70

ChainInputs == {"schedule a meeting", "what is the weather"}

\* The scores the first extraction may report: nothing clamps them to [0, 1].
Confidences == {-10, 0, 150} \cup (60..80)

EventExtraction(description, is_calendar_event, confidence_score) ==
    [description |-> description, is_calendar_event |-> is_calendar_event,
     confidence_score |-> confidence_score]
NoExtraction == EventExtraction("", FALSE, 0)

\* The value process_calendar_request hands back.
EventConfirmation(description) == Result("EventConfirmation", description, <<>>)

\* The gate of process_calendar_request with <= for <.
GateRejectsInclusive(extraction) ==
    ~extraction.is_calendar_event \/ extraction.confidence_score <= GateThreshold

\* not initial_extraction.is_calendar_event or
\* initial_extraction.confidence_score < 0.7
GateRejects(extraction) ==
    ~extraction.is_calendar_event \/ extraction.confidence_score < GateThreshold

ChainInit ==
    /\ cInput \in ChainInputs
    /\ cPc = "extract"
    /\ cExtraction = NoExtraction
    /\ cCalls = <<>>
    /\ cResult = None

ChainOnly == UNCHANGED << agentVars, dispatchVars, scriptVars, workflowVars >>

\* An LLM step raises (transport failure, refusal, shape violation): nothing
\* catches it and process_calendar_request ends with the exception.
StepRaises(step, pc) ==
    /\ cPc = pc
    /\ cCalls' = Append(cCalls, step)
    /\ cPc' = "raised"
    /\ UNCHANGED << cInput, cExtraction, cResult >>
    /\ ChainOnly

ExtractRaises == StepRaises("extract_event_information", "extract")
ParseRaises == StepRaises("parse_event_details", "parse")
ConfirmRaises == StepRaises("generate_confirmation", "confirm")

\* extract_event_information returns; the gate returns None or lets the
\* chain go on.
Extract(is_calendar_event, confidence_score) ==
    /\ cPc = "extract"
    /\ cCalls' = Append(cCalls, "extract_event_information")
    /\ LET initial_extraction ==
               EventExtraction(cInput, is_calendar_event, confidence_score)
       IN /\ cExtraction' = initial_extraction
          /\ IF GateRejects(initial_extraction)
             THEN cPc' = "returned" /\ cResult' = None
             ELSE cPc' = "parse" /\ UNCHANGED cResult
    /\ UNCHANGED cInput
    /\ ChainOnly

\* parse_event_details(initial_extraction.description) returns.
ParseEventDetails ==
    /\ cPc = "parse"
    /\ cCalls' = Append(cCalls, "parse_event_details")
    /\ cPc' = "confirm"
    /\ UNCHANGED << cInput, cExtraction, cResult >>
    /\ ChainOnly

\* generate_confirmation(event_details) returns and its value is returned.
GenerateConfirmation ==
    /\ cPc = "confirm"
    /\ cCalls' = Append(cCalls, "generate_confirmation")
    /\ cPc' = "returned"
    /\ cResult' = EventConfirmation(cExtraction.description)
    /\ UNCHANGED << cInput, cExtraction >>
    /\ ChainOnly

ChainNext ==
    \/ \E is_calendar_event \in BOOLEAN, confidence_score \in Confidences :
          Extract(is_calendar_event, confidence_score)
    \/ ParseEventDetails
    \/ GenerateConfirmation
    \/ ExtractRaises
    \/ ParseRaises
    \/ ConfirmRaises

ChainStart == AgentIdle /\ DispatchIdle /\ ScriptIdle /\ ChainInit /\ WorkflowsIdle

ChainSpec == ChainStart /\ [][ChainNext]_vars

\* The downstream steps invoked so far.
Downstream == SelectSeq(cCalls, LAMBDA step : step # "extract_event_information")

\* extract_event_information has returned.
Extracted == cCalls # <<>> /\ ~(cPc = "raised" /\ Len(cCalls) = 1)

\* C10: once the first extraction has reported is_calendar_event = false or
\* a confidence below 0.7, the chain has returned None (rejected, not
\* raised) with no downstream step invoked; once it has reported a calendar
\* event with a confidence of 0.7 or more, the chain is not rejected, the
\* downstream steps are invoked at most once each, parse_event_details
\* first, and a chain that has returned has invoked both.
C10_ChainGate ==
    Extracted =>
        IF ~cExtraction.is_calendar_event \/ cExtraction.confidence_score < GateThreshold
        THEN /\ cPc = "returned"
             /\ cResult = None
             /\ Downstream = <<>>
        ELSE /\ cPc \in {"parse", "confirm", "returned", "raised"}
             /\ (cPc = "parse") => (Downstream = <<>>)
             /\ (cPc = "confirm") => (Downstream = <<"parse_event_details">>)
             /\ (cPc = "returned") =>
                   (/\ Downstream = <<"parse_event_details", "generate_confirmation">>
                    /\ cResult = EventConfirmation(cInput))
             /\ (cPc = "raised") =>
                   (\/ Downstream = <<"parse_event_details">>
                    \/ Downstream = <<"parse_event_details", "generate_confirmation">>)

\* The gate scenario: a calendar event reported with confidence 0.65 has
\* been rejected.
C10_Witness ==
    /\ cPc = "returned"
    /\ cExtraction.is_calendar_event
    /\ cExtraction.confidence_score = 65
    /\ cResult = None
    /\ cCalls = <<"extract_event_information">>

\* ------------------------------------------------------------------ routing
\* 02_routing.py, in hundredths like GateThreshold.
RouteThreshold == 70

RouteInputs == {"schedule a meeting", "move the meeting to 3pm"}

\* The labels CalendarRequestType declares, and one it does not.
RequestTypes == {"new_event", "modify_event"}
RouteLabels == RequestTypes \cup {"cancel_event"}

CalendarRequestType(request_type, confidence_score, description) ==
    [request_type |-> request_type, confidence_score |-> confidence_score,
     description |-> description]
NoRoute == CalendarRequestType("", 0, "")

\* The CalendarResponse each handler builds from the description it is given.
CalendarResponse(handler, description) ==
    IF handler = "handle_new_event"
    THEN Result("Created a new event", description, <<>>)
    ELSE Result("Modified event", description, <<>>)

\* Selects without the confidence test.
SelectsByLabelOnly(route_result) ==
    IF route_result.request_type = "new_event" THEN "handle_new_event"
    ELSE IF route_result.request_type = "modify_event" THEN "handle_modify_event"
    ELSE "none"

\* The branch process_calendar_request takes on route_result: the handler
\* it calls, or "none" where it returns None.
Selects(route_result) ==
    IF route_result.confidence_score < RouteThreshold THEN "none"
    ELSE IF route_result.request_type = "new_event" THEN "handle_new_event"
    ELSE IF route_result.request_type = "modify_event" THEN "handle_modify_event"
    ELSE "none"

RouteInit ==
    /\ rInput \in RouteInputs
    /\ rPc = "route"
    /\ rRoute = NoRoute
    /\ rCalls = <<>>
    /\ rResult = None

RouteOnly ==
    UNCHANGED << coreVars, parallelVars, orchVars, editVars, researchVars,
                 extractVars >>

\* route_calendar_request raises: nothing catches it.
RouteRaises ==
    /\ rPc = "route"
    /\ rCalls' = Append(rCalls, "route_calendar_request")
    /\ rPc' = "raised"
    /\ UNCHANGED << rInput, rRoute, rResult >>
    /\ RouteOnly

\* route_calendar_request returns and process_calendar_request branches.
Route(request_type, confidence_score) ==
    /\ rPc = "route"
    /\ rCalls' = Append(rCalls, "route_calendar_request")
    /\ LET route_result ==
               CalendarRequestType(request_type, confidence_score, rInput)
       IN /\ rRoute' = route_result
          /\ IF Selects(route_result) = "none"
             THEN rPc' = "returned" /\ rResult' = None
             ELSE rPc' = Selects(route_result) /\ UNCHANGED rResult
    /\ UNCHANGED rInput
    /\ RouteOnly

\* The handler called returns and its value is returned.
Handle(handler) ==
    /\ rPc = handler
    /\ rCalls' = Append(rCalls, handler)
    /\ rPc' = "returned"
    /\ rResult' = CalendarResponse(handler, rRoute.description)
    /\ UNCHANGED << rInput, rRoute >>
    /\ RouteOnly

\* The handler called raises.
HandleRaises(handler) ==
    /\ rPc = handler
    /\ rCalls' = Append(rCalls, handler)
    /\ rPc' = "raised"
    /\ UNCHANGED << rInput, rRoute, rResult >>
    /\ RouteOnly

Handlers == {"handle_new_event", "handle_modify_event"}

RouteNext ==
    \/ \E request_type \in RouteLabels, confidence_score \in Confidences :
          Route(request_type, confidence_score)
    \/ RouteRaises
    \/ \E handler \in Handlers : Handle(handler)
    \/ \E handler \in Handlers : HandleRaises(handler)

RouteStart ==
    CoreIdle /\ RouteInit /\ ParallelIdle /\ OrchIdle /\ EditIdle /\ ResearchIdle
        /\ ExtractIdle

RouteSpec == RouteStart /\ [][RouteNext]_vars

\* The handlers invoked so far.
HandlersCalled == SelectSeq(rCalls, LAMBDA step : step # "route_calendar_request")

\* route_calendar_request has returned.
Routed == rCalls # <<>> /\ ~(rPc = "raised" /\ Len(rCalls) = 1)

\* The handler that matches a declared label.
Matching(request_type) ==
    IF request_type = "new_event" THEN "handle_new_event" ELSE "handle_modify_event"

\* C11: once the classification has come back with a confidence below 0.7
\* or a label that is neither new_event nor modify_event, the router has
\* returned None with no handler invoked; otherwise the handler matching the
\* label, and no other, is invoked, once, and a router that has returned
\* has returned that handler's result.
C11_Routing ==
    Routed =>
        IF rRoute.confidence_score < RouteThreshold
              \/ rRoute.request_type \notin RequestTypes
        THEN /\ rPc = "returned"
             /\ rResult = None
             /\ HandlersCalled = <<>>
        ELSE /\ rPc \in {Matching(rRoute.request_type), "returned", "raised"}
             /\ (rPc = Matching(rRoute.request_type)) => (HandlersCalled = <<>>)
             /\ (rPc \in {"returned", "raised"}) =>
                   (HandlersCalled = <<Matching(rRoute.request_type)>>)
             /\ (rPc = "returned") =>
                   (rResult = CalendarResponse(Matching(rRoute.request_type),
                                               rRoute.description))

\* A modify_event request classified with confidence 0.7 has been handled by
\* handle_modify_event.
C11_Witness ==
    /\ rPc = "returned"
    /\ rRoute.request_type = "modify_event"
    /\ rRoute.confidence_score = RouteThreshold
    /\ rCalls = <<"route_calendar_request", "handle_modify_event">>
    /\ rResult = CalendarResponse("handle_modify_event", rInput)

\* An unrecognized label reported with full confidence is not handled.
C11_NotHandled ==
    /\ rPc = "returned"
    /\ rRoute.request_type = "cancel_event"
    /\ rRoute.confidence_score >= RouteThreshold
    /\ rResult = None
    /\ rCalls = <<"route_calendar_request">>

\* ------------------------------------------------------------------ parallel validation
\* 03_parallelization.py, in hundredths.
ParallelThreshold == 70

CalendarValidation(is_calendar_request, confidence_score) ==
    [is_calendar_request |-> is_calendar_request,
     confidence_score |-> confidence_score]
SecurityCheck(is_safe, risk_flags) == [is_safe |-> is_safe, risk_flags |-> risk_flags]

RiskFlags == {<<>>, <<"prompt_injection">>}

\* A branch of the gather: a task that runs, then has returned its parsed
\* value, has raised, or was cancelled when the event loop closed.
Task(status, value) == [status |-> status, value |-> value]

\* One finished validate_request: what the branches returned, the order
\* they finished in and the verdict.
Validation(done, calendar_check, security_check, order, verdict) ==
    [done |-> done, calendar_check |-> calendar_check,
     security_check |-> security_check, order |-> order, verdict |-> verdict]
NoValidation ==
    Validation(FALSE, CalendarValidation(FALSE, 0), SecurityCheck(FALSE, <<>>),
               <<>>, FALSE)

\* is_valid with or for and.
is_valid_either(calendar_check, security_check) ==
    \/ calendar_check.is_calendar_request
    \/ calendar_check.confidence_score > ParallelThreshold
    \/ security_check.is_safe

is_valid(calendar_check, security_check) ==
    /\ calendar_check.is_calendar_request
    /\ calendar_check.confidence_score > ParallelThreshold
    /\ security_check.is_safe

ParallelInit ==
    /\ pCalendar = Task("running", CalendarValidation(FALSE, 0))
    /\ pSecurity = Task("running", SecurityCheck(FALSE, <<>>))
    /\ pPc = "gathering"
    /\ pResult = FALSE
    /\ pOrder = <<>>
    /\ pPrev = NoValidation
    /\ pPrompts = 1

ParallelOnly ==
    UNCHANGED << coreVars, routeVars, orchVars, editVars, researchVars,
                 extractVars >>

\* The tasks go on until the event loop is closed, whether or not
\* validate_request still waits for them.
LoopOpen == pCalendar.status # "cancelled" /\ pSecurity.status # "cancelled"

\* validate_calendar_request returns the parsed CalendarValidation.
CalendarReturns(is_calendar_request, confidence_score) ==
    /\ pCalendar.status = "running" /\ LoopOpen
    /\ pCalendar' = Task("returned",
                         CalendarValidation(is_calendar_request, confidence_score))
    /\ pOrder' = Append(pOrder, "calendar")
    /\ UNCHANGED << pSecurity, pPc, pResult, pPrev, pPrompts >>
    /\ ParallelOnly

\* validate_calendar_request raises.
CalendarRaises ==
    /\ pCalendar.status = "running" /\ LoopOpen
    /\ pCalendar' = Task("raised", pCalendar.value)
    /\ pOrder' = Append(pOrder, "calendar")
    /\ UNCHANGED << pSecurity, pPc, pResult, pPrev, pPrompts >>
    /\ ParallelOnly

\* check_security returns the parsed SecurityCheck.
SecurityReturns(is_safe, risk_flags) ==
    /\ pSecurity.status = "running" /\ LoopOpen
    /\ pSecurity' = Task("returned", SecurityCheck(is_safe, risk_flags))
    /\ pOrder' = Append(pOrder, "security")
    /\ UNCHANGED << pCalendar, pPc, pResult, pPrev, pPrompts >>
    /\ ParallelOnly

\* check_security raises.
SecurityRaises ==
    /\ pSecurity.status = "running" /\ LoopOpen
    /\ pSecurity' = Task("raised", pSecurity.value)
    /\ pOrder' = Append(pOrder, "security")
    /\ UNCHANGED << pCalendar, pPc, pResult, pPrev, pPrompts >>
    /\ ParallelOnly

\* GatherReturns deciding on the branch that finished first alone.
GatherReturnsFirstCompleted ==
    /\ pPc = "gathering"
    /\ pCalendar.status = "returned" /\ pSecurity.status = "returned"
    /\ pResult' = IF pOrder[1] = "calendar"
                  THEN /\ pCalendar.value.is_calendar_request
                       /\ pCalendar.value.confidence_score > ParallelThreshold
                  ELSE pSecurity.value.is_safe
    /\ pPc' = "returned"
    /\ UNCHANGED << pCalendar, pSecurity, pOrder, pPrev, pPrompts >>
    /\ ParallelOnly

\* Both tasks have returned: gather hands their values over, is_valid is
\* computed and returned.
GatherReturns ==
    /\ pPc = "gathering"
    /\ pCalendar.status = "returned" /\ pSecurity.status = "returned"
    /\ pResult' = is_valid(pCalendar.value, pSecurity.value)
    /\ pPc' = "returned"
    /\ UNCHANGED << pCalendar, pSecurity, pOrder, pPrev, pPrompts >>
    /\ ParallelOnly

\* asyncio.gather without return_exceptions: the first exception raised by
\* a task is propagated to the awaiting validate_request at once; the other
\* task is neither awaited nor cancelled.
GatherRaises ==
    /\ pPc = "gathering"
    /\ pCalendar.status = "raised" \/ pSecurity.status = "raised"
    /\ pPc' = "raised"
    /\ UNCHANGED << pCalendar, pSecurity, pResult, pOrder, pPrev, pPrompts >>
    /\ ParallelOnly

\* asyncio.run ends with the exception and cancels the task still running.
RunCancels ==
    /\ pPc = "raised"
    /\ pCalendar.status = "running" \/ pSecurity.status = "running"
    /\ pCalendar' = IF pCalendar.status = "running"
                    THEN Task("cancelled", pCalendar.value) ELSE pCalendar
    /\ pSecurity' = IF pSecurity.status = "running"
                    THEN Task("cancelled", pSecurity.value) ELSE pSecurity
    /\ UNCHANGED << pPc, pResult, pOrder, pPrev, pPrompts >>
    /\ ParallelOnly

\* The script goes on to its next prompt: asyncio.run with a new event
\* loop and a new validate_request.
NextPrompt ==
    /\ pPc = "returned"
    /\ pPrompts < MaxPrompts
    /\ pPrev' = Validation(TRUE, pCalendar.value, pSecurity.value, pOrder, pResult)
    /\ pCalendar' = Task("running", CalendarValidation(FALSE, 0))
    /\ pSecurity' = Task("running", SecurityCheck(FALSE, <<>>))
    /\ pPc' = "gathering"
    /\ pResult' = FALSE
    /\ pOrder' = <<>>
    /\ pPrompts' = pPrompts + 1
    /\ ParallelOnly

ParallelNext ==
    \/ \E is_calendar_request \in BOOLEAN, confidence_score \in Confidences :
          CalendarReturns(is_calendar_request, confidence_score)
    \/ CalendarRaises
    \/ \E is_safe \in BOOLEAN, risk_flags \in RiskFlags :
          SecurityReturns(is_safe, risk_flags)
    \/ SecurityRaises
    \/ GatherReturns
    \/ GatherRaises
    \/ RunCancels
    \/ NextPrompt

ParallelStart ==
    CoreIdle /\ RouteIdle /\ ParallelInit /\ OrchIdle /\ EditIdle /\ ResearchIdle
        /\ ExtractIdle

ParallelSpec == ParallelStart /\ [][ParallelNext]_vars

\* The two configured predicates on the branch results.
CalendarCheckPasses ==
    /\ pCalendar.value.is_calendar_request
    /\ pCalendar.value.confidence_score > ParallelThreshold
SecurityCheckPasses == pSecurity.value.is_safe

\* C12: the value validate_request returns is valid when both the calendar
\* check and the security check pass and invalid in the three other
\* combinations of branch results.
C12_AndSemantics ==
    pPc = "returned" =>
        /\ (CalendarCheckPasses /\ SecurityCheckPasses) => (pResult = TRUE)
        /\ (CalendarCheckPasses /\ ~SecurityCheckPasses) => (pResult = FALSE)
        /\ (~CalendarCheckPasses /\ SecurityCheckPasses) => (pResult = FALSE)
        /\ (~CalendarCheckPasses /\ ~SecurityCheckPasses) => (pResult = FALSE)

\* The calendar check passes, the security check fails, and the request
\* has been found invalid.
C12_Witness ==
    /\ pPc = "returned"
    /\ CalendarCheckPasses
    /\ ~SecurityCheckPasses
    /\ pResult = FALSE

\* C13: validate_request goes on (returns or raises) only once both
\* branches have finished, by returning or by raising.
C13_FullJoin ==
    pPc \in {"returned", "raised"} =>
        /\ pCalendar.status \in {"returned", "raised"}
        /\ pSecurity.status \in {"returned", "raised"}

\* ------------------------------------------------------------------ orchestrator
\* 04_orchestrator.py. A plan is the sequence of its sub-tasks' section
\* types; nothing keeps two sub-tasks of a plan from having the same type.
SectionTypes == {"introduction", "body"}
Plans == UNION { [1..n -> SectionTypes] : n \in 0..MaxSections }

\* The SectionContent written by the worker of sub-task k in write_blog call
\* run: worker outputs are told apart by where they come from.
SectionContent(run, k) == [run |-> run, k |-> k]

\* A dict in insertion order, as the sequence of its items.
Item(key, value) == [key |-> key, value |-> value]

\* d[key] = value: an existing key keeps its place and takes the new value,
\* a new key goes last.
DictSet(d, key, value) ==
    IF \E i \in 1..Len(d) : d[i].key = key
    THEN [i \in 1..Len(d) |-> IF d[i].key = key THEN Item(key, value) ELSE d[i]]
    ELSE Append(d, Item(key, value))

\* blog_writer = BlogOrchestrator()
OrchInit ==
    /\ oContent = <<>>
    /\ oPc = "constructed"
    /\ oPlan = <<>>
    /\ oK = 0
    /\ oContexts = <<>>
    /\ oReview = <<>>
    /\ oPost = <<>>
    /\ oRuns = 0

OrchOnly ==
    UNCHANGED << coreVars, routeVars, parallelVars, editVars, researchVars,
                 extractVars >>

\* write_blog is called; self.sections_content is what it is.
WriteBlog ==
    /\ oPc \in {"constructed", "returned", "raised"}
    /\ oRuns < MaxBlogs
    /\ oRuns' = oRuns + 1
    /\ oPc' = "plan"
    /\ oPlan' = <<>>
    /\ oK' = 0
    /\ oContexts' = <<>>
    /\ oReview' = <<>>
    /\ oPost' = <<>>
    /\ UNCHANGED oContent
    /\ OrchOnly

\* get_orchestrator_plan returns; the for loop is entered.
GetOrchestratorPlan(plan) ==
    /\ oPc = "plan"
    /\ oPlan' = plan
    /\ oPc' = IF plan = <<>> THEN "review" ELSE "write"
    /\ UNCHANGED << oContent, oK, oContexts, oReview, oPost, oRuns >>
    /\ OrchOnly

\* One iteration of the for loop: write_section builds previous_sections
\* from self.sections_content, the worker returns, and its content is
\* stored under the section type.
WriteSection ==
    /\ oPc = "write"
    /\ oContexts' = Append(oContexts, oContent)
    /\ oContent' = DictSet(oContent, oPlan[oK + 1], SectionContent(oRuns, oK + 1))
    /\ oK' = oK + 1
    /\ oPc' = IF oK + 1 = Len(oPlan) THEN "review" ELSE "write"
    /\ UNCHANGED << oPlan, oReview, oPost, oRuns >>
    /\ OrchOnly

\* review_blog_post builds sections_text from self.sections_content, the
\* reviewer returns, and the BlogPost is returned with
\* sections = self.sections_content.
ReviewBlogPost ==
    /\ oPc = "review"
    /\ oReview' = oContent
    /\ oPost' = oContent
    /\ oPc' = "returned"
    /\ UNCHANGED << oContent, oPlan, oK, oContexts, oRuns >>
    /\ OrchOnly

\* The parse call of the step at hand raises: write_blog ends with the
\* exception and self.sections_content stays as it is. A worker that raises
\* had been given its context.
OrchStepRaises ==
    /\ oPc \in {"plan", "write", "review"}
    /\ oContexts' = IF oPc = "write" THEN Append(oContexts, oContent) ELSE oContexts
    /\ oPc' = "raised"
    /\ UNCHANGED << oContent, oPlan, oK, oReview, oPost, oRuns >>
    /\ OrchOnly

OrchNext ==
    \/ WriteBlog
    \/ \E plan \in Plans : GetOrchestratorPlan(plan)
    \/ WriteSection
    \/ ReviewBlogPost
    \/ OrchStepRaises

OrchStart ==
    CoreIdle /\ RouteIdle /\ ParallelIdle /\ OrchInit /\ EditIdle /\ ResearchIdle
        /\ ExtractIdle

OrchSpec == OrchStart /\ [][OrchNext]_vars

\* The outputs a sequence of dict items carries.
Outputs(items) == { items[i].value : i \in 1..Len(items) }

\* C14: the worker of sub-task k of the running plan was given the outputs
\* of sub-tasks 1..k-1 of that plan, all of them and nothing else; the
\* worker of sub-task 1 was given none.
C14_WorkerContext ==
    \A k \in 1..Len(oContexts) :
        /\ Outputs(oContexts[k]) = { SectionContent(oRuns, j) : j \in 1..(k - 1) }
        /\ Len(oContexts[k]) = k - 1

\* C15: when write_blog has returned for a plan of n sub-tasks, the
\* reviewer was given n section outputs, one per sub-task of the plan, and
\* the BlogPost holds those n.
C15_ReviewSeesAll ==
    oPc = "returned" =>
        /\ Len(oReview) = Len(oPlan)
        /\ Outputs(oReview) = { SectionContent(oRuns, k) : k \in 1..Len(oPlan) }
        /\ Len(oPost) = Len(oPlan)
        /\ Outputs(oPost) = { SectionContent(oRuns, k) : k \in 1..Len(oPlan) }

\* C16: a write_blog call starts from an empty accumulator, and no worker
\* and no reviewer of a call is given an output of an earlier call.
C16_StatePerRun ==
    /\ (oPc = "plan") => (oContent = <<>>)
    /\ \A k \in 1..Len(oContexts) :
          \A c \in Outputs(oContexts[k]) : c.run = oRuns
    /\ \A c \in Outputs(oReview) : c.run = oRuns

\* ------------------------------------------------------------------ edit_file calls
\* The texts the calls are given: the empty string and the strings of one
\* and two characters over a and b.
Texts ==
    { <<>>, <<"a">>, <<"b">>, <<"a", "a">>, <<"a", "b">>, <<"b", "a">>,
      <<"b", "b">> }

\* One edit_file call: the argument object (old_text given or left out),
\* whether the operating system carries the file operations out, the file
\* as it was before the call and the string returned.
EditCall(path, given, old_text, new_text, io, before, result) ==
    [path |-> path, given |-> given, old_text |-> old_text,
     new_text |-> new_text, io |-> io, before |-> before, result |-> result]
NoCall == EditCall("", FALSE, <<>>, <<>>, TRUE, NoFile, None)

\* The argument object of the call as json.loads hands it over.
EditArgs(path, given, old_text, new_text) ==
    JsonObject({<<"path", path>>, <<"new_text", new_text>>}
               \cup (IF given THEN {<<"old_text", old_text>>} ELSE {}))

\* A directory without the file.
EditInit ==
    /\ eFiles = [p \in Paths |-> NoFile]
    /\ eLast = NoCall
    /\ eCount = 0

EditOnly ==
    UNCHANGED << coreVars, routeVars, parallelVars, orchVars, researchVars,
                 extractVars >>

\* _execute_tool("edit_file", tool_input)
Edit(path, given, old_text, new_text, io) ==
    /\ eCount < MaxEdits
    /\ given \/ old_text = <<>>
    /\ LET out == execute_tool("edit_file",
                               EditArgs(path, given, old_text, new_text),
                               eFiles, io)
       IN /\ eFiles' = out.files
          /\ eLast' = EditCall(path, given, old_text, new_text, io,
                               eFiles[path], out.result)
    /\ eCount' = eCount + 1
    /\ EditOnly

EditNext ==
    \E path \in Paths, given \in BOOLEAN, old_text \in Texts, new_text \in Texts,
       io \in BOOLEAN :
        Edit(path, given, old_text, new_text, io)

EditStart ==
    CoreIdle /\ RouteIdle /\ ParallelIdle /\ OrchIdle /\ EditInit /\ ResearchIdle
        /\ ExtractIdle

EditSpec == EditStart /\ [][EditNext]_vars

\* The old_text of the latest call, empty when left out.
OldText == IF eLast.given THEN eLast.old_text ELSE <<>>
\* The file of the latest call as it is now.
Edited == eFiles[eLast.path]

\* C17: where the operating system carries the file operations out, an edit
\* with empty old_text on a nonexistent file leaves the file existing with
\* content new_text; an edit of an existing file whose old_text is its whole
\* content leaves it with content new_text; an edit of an existing file
\* whose non-empty old_text does not occur in it returns the not-found error
\* and leaves the file as it was.
C17_EditSequence ==
    (eCount > 0 /\ eLast.io) =>
        /\ (~eLast.before.exists /\ OldText = <<>>)
              => (Edited = File(TRUE, eLast.new_text))
        /\ (eLast.before.exists /\ OldText = eLast.before.content)
              => (Edited = File(TRUE, eLast.new_text))
        /\ (eLast.before.exists /\ OldText # <<>>
                /\ ~Contains(eLast.before.content, OldText))
              => (/\ eLast.result = Result("Text not found in", eLast.path, OldText)
                  /\ Edited = eLast.before)

\* The file was created by an earlier call and the latest call has replaced
\* its whole, non-empty content.
C17_Witness ==
    /\ eCount >= 2
    /\ eLast.io
    /\ eLast.before.exists
    /\ eLast.before.content # <<>>
    /\ OldText = eLast.before.content
    /\ eLast.new_text # eLast.before.content
    /\ Edited = File(TRUE, eLast.new_text)

\* C18: an edit whose non-empty old_text is not present in the target, the
\* target not existing included, returns an error and leaves the file as it
\* was: not created, not modified.
C18_NoCreateOnMiss ==
    (eCount > 0 /\ OldText # <<>>
        /\ (~eLast.before.exists \/ ~Contains(eLast.before.content, OldText)))
    => (/\ eLast.result.kind \in ErrorKinds
        /\ Edited = eLast.before)

\* ------------------------------------------------------------------ research tools
\* research_tools.py. An element of the list a tool returns: an error
\* element {"error": ...} or a result, an arXiv result with the marks of
\* what happened to its PDF.
Entry(kind, text, pdf_error, text_error, excerpt) ==
    [kind |-> kind, text |-> text, pdf_error |-> pdf_error,
     text_error |-> text_error, excerpt |-> excerpt]
ErrorEntry(text) == Entry("error", text, FALSE, FALSE, FALSE)
ResultEntry(source) == Entry("result", source, FALSE, FALSE, FALSE)

\* What a tool call does: it returns a list or raises.
ReturnsList(list) == [raised |-> FALSE, list |-> list, exception |-> ""]
RaisesError(exception) == [raised |-> TRUE, list |-> <<>>, exception |-> exception]

\* What happens to the PDF of one arXiv entry.
PdfFates == {"no_link", "fetch_fails", "text_fails", "ok"}

ArxivEnvs ==
    [request : {"ok", "fails"}, xml : {"ok", "malformed"},
     entries : UNION { [1..n -> PdfFates] : n \in 0..MaxEntries }]

TavilyEnvs ==
    [api_key : BOOLEAN, search : {"ok", "fails"}, results : 0..MaxEntries,
     include_images : BOOLEAN]

WikipediaEnvs ==
    [search : {"ok", "empty", "fails"}, page : {"ok", "fails"},
     summary : {"ok", "fails"}]

ResearchTools == {"arxiv_search_tool", "tavily_search_tool", "wikipedia_search_tool"}

Envs(tool) ==
    IF tool = "arxiv_search_tool" THEN ArxivEnvs
    ELSE IF tool = "tavily_search_tool" THEN TavilyEnvs
    ELSE WikipediaEnvs

\* The item built for one entry of the feed.
ArxivItem(fate) ==
    Entry("result", "arxiv", fate = "fetch_fails", fate = "text_fails", fate = "ok")

\* arxiv_search_tool without the try around the PDF fetch and the text
\* extraction: the failure of one entry reaches the outer except.
arxiv_search_tool_unguarded(env) ==
    IF env.request = "fails"
    THEN ReturnsList(<<ErrorEntry("arXiv API request failed")>>)
    ELSE IF env.xml = "malformed"
    THEN ReturnsList(<<ErrorEntry("arXiv API XML parse failed")>>)
    ELSE IF \E i \in 1..Len(env.entries) :
                env.entries[i] \in {"fetch_fails", "text_fails"}
    THEN ReturnsList(<<ErrorEntry("Unexpected error")>>)
    ELSE ReturnsList([i \in 1..Len(env.entries) |-> ArxivItem(env.entries[i])])

arxiv_search_tool(env) ==
    IF env.request = "fails"
    THEN ReturnsList(<<ErrorEntry("arXiv API request failed")>>)
    ELSE IF env.xml = "malformed"
    THEN ReturnsList(<<ErrorEntry("arXiv API XML parse failed")>>)
    ELSE ReturnsList([i \in 1..Len(env.entries) |-> ArxivItem(env.entries[i])])

\* The key is looked up, and its absence raised, before the try.
tavily_search_tool(env) ==
    IF ~env.api_key
    THEN RaisesError("ValueError: TAVILY_API_KEY not found in environment variables.")
    ELSE IF env.search = "fails"
    THEN ReturnsList(<<ErrorEntry("str(e)")>>)
    ELSE ReturnsList([i \in 1..env.results |-> ResultEntry("tavily")]
                     \o (IF env.include_images
                         THEN <<ResultEntry("tavily image")>> ELSE <<>>))

\* wikipedia.search(query)[0] raises IndexError on an empty answer.
wikipedia_search_tool(env) ==
    IF env.search # "ok" \/ env.page = "fails" \/ env.summary = "fails"
    THEN ReturnsList(<<ErrorEntry("str(e)")>>)
    ELSE ReturnsList(<<ResultEntry("wikipedia")>>)

ResearchInit ==
    /\ tTool \in ResearchTools
    /\ tEnv \in Envs(tTool)
    /\ tPc = "ready"
    /\ tOut = ReturnsList(<<>>)

ResearchOnly ==
    UNCHANGED << coreVars, routeVars, parallelVars, orchVars, editVars,
                 extractVars >>

\* The call of tool with the environment behaving as tEnv says.
ResearchCall(tool, out) ==
    /\ tPc = "ready" /\ tTool = tool
    /\ tOut' = out
    /\ tPc' = "called"
    /\ UNCHANGED << tTool, tEnv >>
    /\ ResearchOnly

ArxivSearch == ResearchCall("arxiv_search_tool", arxiv_search_tool(tEnv))
TavilySearch == ResearchCall("tavily_search_tool", tavily_search_tool(tEnv))
WikipediaSearch == ResearchCall("wikipedia_search_tool", wikipedia_search_tool(tEnv))

ResearchNext ==
    \/ ArxivSearch
    \/ TavilySearch
    \/ WikipediaSearch

ResearchStart ==
    CoreIdle /\ RouteIdle /\ ParallelIdle /\ OrchIdle /\ EditIdle /\ ResearchInit
        /\ ExtractIdle

ResearchSpec == ResearchStart /\ [][ResearchNext]_vars

\* The tool's configuration or its upstream service fails.
ServiceFails ==
    IF tTool = "arxiv_search_tool"
    THEN tEnv.request = "fails" \/ tEnv.xml = "malformed"
    ELSE IF tTool = "tavily_search_tool"
    THEN ~tEnv.api_key \/ tEnv.search = "fails"
    ELSE tEnv.search # "ok" \/ tEnv.page = "fails" \/ tEnv.summary = "fails"

\* C19: a research tool that was called has not raised, and where its
\* configuration or its upstream service failed it has returned a list of
\* one element, an error element.
C19_ResearchToolsNeverRaise ==
    tPc = "called" =>
        /\ ~tOut.raised
        /\ ServiceFails => (Len(tOut.list) = 1 /\ tOut.list[1].kind = "error")

\* ------------------------------------------------------------------ declared input schemas
\* The input_schema each tool of AIAgent declares: its properties, all of
\* type string, and the ones it requires.
InputSchema(tool_name) ==
    IF tool_name = "read_file"
    THEN [properties |-> {"path"}, required |-> {"path"}]
    ELSE IF tool_name = "list_files"
    THEN [properties |-> {"path"}, required |-> {}]
    ELSE [properties |-> {"path", "old_text", "new_text"}, required |-> {"new_text"}]

\* tool_input is an object that has every required property and a string
\* for every declared property it has.
Conforms(tool_name, tool_input) ==
    /\ tool_input.isObject
    /\ InputSchema(tool_name).required \subseteq Keys(tool_input)
    /\ \A p \in tool_input.pairs :
          (p[1] \in InputSchema(tool_name).properties) => (p[2] # BadPath)

\* The results only _read_file, _list_files and _edit_file produce.
HandlerKinds ==
    { "File content of", "File not found", "Error reading file",
      "[Error] Directory does not exist or is not a directory",
      "Error listing files", "Empty directory", "Content of",
      "Text not found in", "Text updated successfully", "Successfully created",
      "Error editing file" }

\* The call of AIAgent._execute_tool has run the handler of a declared tool.
HandlerRan ==
    /\ dPc = "called" /\ dWho = "agent"
    /\ dName \in Registered("agent")
    /\ dOut.value.kind \in HandlerKinds

\* C20: a tool handler of the agent has run only on an argument object that
\* conforms to the input schema the tool declares.
C20_ValidatedBeforeInvocation ==
    HandlerRan => Conforms(dName, dArgs)

\* ------------------------------------------------------------------ the agent's requests and conversation
\* C21: when a chat run has ended, _execute_tool has been called once for
\* each tool request the model has emitted: as many calls as requests, and
\* each request with exactly one tool message.
C21_RequestsConsumedOnce ==
    state \in {"DONE", "FAILED"} =>
        /\ toolExecs = Cardinality(Requests(messages))
        /\ \A r \in Requests(messages) :
              Cardinality(AnswersTo(messages, r[1], RequestId(messages, r))) = 1

\* C22: every step of the agent leaves each message already in the
\* conversation at its position with its content, only ever adding messages
\* at the end, and the system message stays first.
C22_AppendOnly ==
    [][ /\ Len(messages') >= Len(messages)
        /\ SubSeq(messages', 1, Len(messages)) = messages
        /\ messages'[1] = SystemMessage ]_agentVars

\* Two chat calls, the first failed after a tool request and the second
\* done, with the system message first and the messages of both in place.
C22_Witness ==
    /\ Len(returns) = 2
    /\ returns[1].outcome = "FAILED"
    /\ returns[2].outcome = "DONE"
    /\ Len(messages) >= 5
    /\ messages[1] = SystemMessage
    /\ messages[2].role = "user"
    /\ messages[3].role = "assistant" /\ messages[3].tool_calls # <<>>
    /\ messages[Len(messages)].role = "assistant"

\* ------------------------------------------------------------------ extraction steps
\* A structured extraction step: one request built from the input, one
\* response, parsed once. Three of them: one that puts today's date into
\* its request, one that sends its input only, one that reads the
\* orchestrator's accumulated sections.
ExtractionSteps ==
    {"extract_event_information", "generate_confirmation", "write_section"}

ExtractionInputs == {"schedule a meeting", "what is the weather"}

\* What the gateway answers: content that parses into the requested shape,
\* or a refusal, for which message.parsed is None.
GatewayResponses ==
    { [content |-> "{A}", refusal |-> FALSE],
      [content |-> "{B}", refusal |-> FALSE],
      [content |-> "", refusal |-> TRUE] }

SectionsRead == { <<>>, <<Item("introduction", SectionContent(1, 1))>> }

\* The messages the step sends.
Request(step, input, today, sections) ==
    [step |-> step, input |-> input,
     date_context |-> IF step = "extract_event_information" THEN today ELSE 0,
     previous_sections |-> IF step = "write_section" THEN sections ELSE <<>>]

\* completion.choices[0].message.parsed
Parsed(step, response) ==
    IF response.refusal THEN None ELSE Result(step, response.content, <<>>)

\* step_result with the date of the request written into the result.
step_result_dated(step, request, response) ==
    Returns(Result(step, response.content, <<request.date_context>>))

\* What the step hands back for the response to its request:
\* extract_event_information logs result.description before returning, an
\* AttributeError on None.
step_result(step, request, response) ==
    IF step = "extract_event_information" /\ Parsed(step, response) = None
    THEN Raises("AttributeError")
    ELSE Returns(Parsed(step, response))

ExtractInit ==
    /\ xStep \in ExtractionSteps
    /\ xInput \in ExtractionInputs
    /\ xResponse \in GatewayResponses
    /\ xSections \in SectionsRead
    /\ xToday = 0
    /\ xCalls = <<>>

ExtractOnly ==
    UNCHANGED << coreVars, routeVars, parallelVars, orchVars, editVars,
                 researchVars >>

\* The step is called with xInput and the gateway answers xResponse.
ExtractionCall ==
    /\ Len(xCalls) < MaxExtractions
    /\ UNCHANGED << xStep, xInput, xResponse, xSections, xToday >>
    /\ LET request == Request(xStep, xInput, xToday, xSections)
       IN xCalls' = Append(xCalls,
                           [request |-> request,
                            outcome |-> step_result(xStep, request, xResponse),
                            sections |-> xSections'])
    /\ ExtractOnly

\* Midnight passes between two calls.
DayPasses ==
    /\ xToday < MaxDays
    /\ xToday' = xToday + 1
    /\ UNCHANGED << xStep, xInput, xResponse, xSections, xCalls >>
    /\ ExtractOnly

ExtractNext ==
    \/ ExtractionCall
    \/ DayPasses

ExtractStart ==
    CoreIdle /\ RouteIdle /\ ParallelIdle /\ OrchIdle /\ EditIdle /\ ResearchIdle
        /\ ExtractInit

ExtractSpec == ExtractStart /\ [][ExtractNext]_vars

RECURSIVE ReplaceFirst(_, _, _)
ReplaceFirst(content, old, new) ==
    IF Len(content) < Len(old) \/ Len(old) = 0 THEN content
    ELSE IF SubSeq(content, 1, Len(old)) = old
         THEN new \o SubSeq(content, Len(old) + 1, Len(content))
         ELSE <<Head(content)>> \o ReplaceFirst(Tail(content), old, new)

\* C24: an edit of an existing file whose content contains the non-empty
\* old_text leaves the file with its first occurrence of old_text replaced by
\* new_text and everything else, later occurrences included, as it was.
C24_ReplacesFirstOnly ==
    (eCount > 0 /\ eLast.io /\ eLast.before.exists /\ OldText # <<>>
        /\ Contains(eLast.before.content, OldText))
    => (Edited = File(TRUE, ReplaceFirst(eLast.before.content, OldText,
                                         eLast.new_text)))

\* C26: an edit of an existing file with empty or missing old_text leaves the
\* content the file had in place: the file still holds it.
C26_KeepsOtherContent ==
    (eCount > 0 /\ eLast.before.exists /\ eLast.before.content # <<>>
        /\ OldText = <<>>)
    => (/\ Edited.exists
        /\ Contains(Edited.content, eLast.before.content))

\* ------------------------------------------------------------------ the confidence threshold
\* C25: on the confidence score the calendar branch has reported, the three
\* patterns decide alike and inclusively: with the boolean checks passing a
\* score of the threshold or more is accepted by the chain gate, by the
\* router and by the validation that has returned, and a lower score is
\* rejected by all three.
C25_ThresholdInclusive ==
    pPc = "returned" =>
        LET score == pCalendar.value.confidence_score
            accepted == score >= ParallelThreshold
        IN /\ (~GateRejects(EventExtraction("schedule a meeting", TRUE, score)))
                  <=> accepted
           /\ (Selects(CalendarRequestType("new_event", score,
                                           "schedule a meeting"))
                   = "handle_new_event") <=> accepted
           /\ (pCalendar.value.is_calendar_request /\ pSecurity.value.is_safe)
                  => (pResult <=> accepted)

\* ------------------------------------------------------------------ schema and handler
\* C27: a call of AIAgent._execute_tool for a declared tool with an argument
\* object that conforms to the tool's declared input schema has not ended
\* in the error result of a missing argument.
C27_SchemaAndHandlerAgree ==
    (/\ dPc = "called" /\ dWho = "agent"
     /\ dName \in Registered("agent")
     /\ Conforms(dName, dArgs))
    => (dOut.value.kind # "Error executing tool")

\* ------------------------------------------------------------------ interleaving of the branches
\* C28: a validate_request whose branches have returned what the branches
\* of the validation before returned has come to the same verdict, in
\* whichever order the branches of the two finished; and a step in which
\* one branch finishes leaves the other branch as it was.
C28_InterleavingIndependent ==
    /\ [](( /\ pPc = "returned" /\ pPrev.done
            /\ pPrev.calendar_check = pCalendar.value
            /\ pPrev.security_check = pSecurity.value )
          => (pResult = pPrev.verdict))
    /\ [][ /\ (Len(pOrder') > Len(pOrder) /\ pOrder'[Len(pOrder')] = "calendar")
                => (pSecurity' = pSecurity)
           /\ (Len(pOrder') > Len(pOrder) /\ pOrder'[Len(pOrder')] = "security")
                => (pCalendar' = pCalendar) ]_parallelVars

\* Two validations with the same branch results, the branches finishing in
\* one order in the first and in the other order in the second, and the
\* same verdict, once valid.
C28_Witness ==
    /\ pPc = "returned" /\ pPrev.done
    /\ pPrev.calendar_check = pCalendar.value
    /\ pPrev.security_check = pSecurity.value
    /\ pPrev.order = <<"calendar", "security">>
    /\ pOrder = <<"security", "calendar">>
    /\ pResult = TRUE
    /\ pPrev.verdict = TRUE

\* ------------------------------------------------------------------ a first response without tool requests
\* C29: in the tool scripts, once the first model response has come without
\* tool requests, the tool loop has not ended the script, no tool has been
\* run and the conversation is the one the first call was made with.
C29_NoRequestsStillProceeds ==
    (sResponse.tool_calls = <<>> /\ sIdx = 1) =>
        /\ sPc # "crashed"
        /\ sToolRuns = 0
        /\ Len(sMessages) = 2

\* ------------------------------------------------------------------ arXiv entries
\* C30: where the search request and the parsing of its response succeed,
\* arxiv_search_tool has returned one result item per entry of the feed, in
\* order, an item carrying pdf_error exactly where the PDF fetch of its
\* entry failed and text_error exactly where its text extraction failed;
\* where the request or the parsing fails it has returned a list of one
\* error element.
C30_EntryFailuresIsolated ==
    (tPc = "called" /\ tTool = "arxiv_search_tool") =>
        /\ ~tOut.raised
        /\ IF tEnv.request = "fails" \/ tEnv.xml = "malformed"
           THEN Len(tOut.list) = 1 /\ tOut.list[1].kind = "error"
           ELSE /\ Len(tOut.list) = Len(tEnv.entries)
                /\ \A i \in 1..Len(tEnv.entries) :
                      /\ tOut.list[i].kind = "result"
                      /\ tOut.list[i].pdf_error <=> (tEnv.entries[i] = "fetch_fails")
                      /\ tOut.list[i].text_error <=> (tEnv.entries[i] = "text_fails")

\* A feed of two entries: the PDF fetch of the first failed, the second
\* went through, and both items have been returned.
C30_Witness ==
    /\ tPc = "called" /\ tTool = "arxiv_search_tool"
    /\ tEnv.request = "ok" /\ tEnv.xml = "ok"
    /\ tEnv.entries = <<"fetch_fails", "ok">>
    /\ Len(tOut.list) = 2
    /\ tOut.list[1].pdf_error
    /\ ~tOut.list[2].pdf_error /\ tOut.list[2].excerpt

====
